---- MODULE Spec2Model ----
(***************************************************************************)
(* HBnB: validated entities (User, Place, Amenity, Review), the two        *)
(* repositories (in-memory, relational) and the facade that orchestrates   *)
(* them.  The part4 facade runs over SQLAlchemyRepository; the part2       *)
(* facade runs over InMemoryRepository.                                    *)
(*                                                                         *)
(* Strings are sequences of one-character strings, so that strip(),        *)
(* lower(), title() and the e-mail regular expression are computed.        *)
(* Identifiers (uuid4 in the code) are fresh integers per entity type.     *)
(* The relational model is one SQLAlchemy session: rows are the committed  *)
(* tables, `dirty` holds attribute assignments made on a session object    *)
(* that no commit or rollback has settled yet.                             *)
(***************************************************************************)
EXTENDS Integers, Sequences, FiniteSets, TLC

VARIABLES users, places, amenities, reviews, dirty, existing_emails, nextId, deleted, last,
          now, entity, calls, repos, loaded

vars == <<users, places, amenities, reviews, dirty, existing_emails, nextId, deleted, last,
          now, entity, calls, repos, loaded>>

(***************************************************************************)
(* Bounds of the model.                                                    *)
(***************************************************************************)
MaxUsers == 2
MaxPlaces == 2
MaxAmenities == 1
MaxReviews == 2

\* the highest amenity id the find-or-create step of the place handlers hands out
MaxFindOrCreate == 2

\* the last reading of the clock
MaxClock == 4

(***************************************************************************)
(* Strings.                                                                *)
(***************************************************************************)
UpperLetters == <<"A", "B", "C", "D", "E", "F", "G", "H", "I", "J", "K", "L", "M",
                  "N", "O", "P", "Q", "R", "S", "T", "U", "V", "W", "X", "Y", "Z">>

LowerLetters == <<"a", "b", "c", "d", "e", "f", "g", "h", "i", "j", "k", "l", "m",
                  "n", "o", "p", "q", "r", "s", "t", "u", "v", "w", "x", "y", "z">>

Digits == {"0", "1", "2", "3", "4", "5", "6", "7", "8", "9"}

Whitespace == {" ", "\t", "\n", "\r"}

Range(f) == {f[i] : i \in DOMAIN f}

Alpha == Range(UpperLetters) \cup Range(LowerLetters)

LowerChar(c) ==
    IF c \in Range(UpperLetters)
    THEN LowerLetters[CHOOSE i \in DOMAIN UpperLetters : UpperLetters[i] = c]
    ELSE c

UpperChar(c) ==
    IF c \in Range(LowerLetters)
    THEN UpperLetters[CHOOSE i \in DOMAIN LowerLetters : LowerLetters[i] = c]
    ELSE c

\* str.lower()
Lower(s) == [i \in 1..Len(s) |-> LowerChar(s[i])]

\* str.title(): the first letter of every run of letters in upper case,
\* the other letters in lower case
Title(s) ==
    [i \in 1..Len(s) |->
        IF i = 1 \/ s[i - 1] \notin Alpha THEN UpperChar(s[i]) ELSE LowerChar(s[i])]

RECURSIVE LStrip(_)
LStrip(s) == IF s # <<>> /\ Head(s) \in Whitespace THEN LStrip(Tail(s)) ELSE s

RECURSIVE RStrip(_)
RStrip(s) ==
    IF s # <<>> /\ s[Len(s)] \in Whitespace THEN RStrip(SubSeq(s, 1, Len(s) - 1)) ELSE s

\* str.strip()
Strip(s) == RStrip(LStrip(s))

\* re.fullmatch(r'[A-Za-z0-9._%+-]+@[A-Za-z0-9.-]+\.[A-Za-z]{2,7}', s)
EmailLocalChars == Alpha \cup Digits \cup {".", "_", "%", "+", "-"}

EmailDomainChars == Alpha \cup Digits \cup {".", "-"}

EmailMatches(s) ==
    \E i \in 1..Len(s), j \in 1..Len(s) :
        /\ i > 1 /\ s[i] = "@"
        /\ \A k \in 1..(i - 1) : s[k] \in EmailLocalChars
        /\ j > i + 1 /\ s[j] = "."
        /\ \A k \in (i + 1)..(j - 1) : s[k] \in EmailDomainChars
        /\ Len(s) - j >= 2 /\ Len(s) - j <= 7
        /\ \A k \in (j + 1)..Len(s) : s[k] \in Alpha

\* bcrypt.generate_password_hash(password): an image of the plaintext under
\* a salt that bcrypt draws afresh for every call
HashPassword(p, salt) == <<"$", "2", "b", "$", salt>> \o p

\* bcrypt.check_password_hash(hash, password)
CheckPassword(hash, p) == Len(hash) >= 5 /\ SubSeq(hash, 6, Len(hash)) = p

(***************************************************************************)
(* Tables and field-maps are functions; these are the dict/attribute       *)
(* primitives the code uses on them.                                       *)
(***************************************************************************)
Empty == <<>>

Has(data, key) == key \in DOMAIN data

Without(f, k) == [x \in DOMAIN f \ {k} |-> f[x]]

\* for key, value in data.items(): setattr(obj, key, value)
SetAttrs(obj, data) ==
    [k \in DOMAIN obj \cup DOMAIN data |-> IF k \in DOMAIN data THEN data[k] ELSE obj[k]]

\* the outcome of a facade call, as its caller observes it
Result(err, ret) == [err |-> err, ret |-> ret]

(***************************************************************************)
(* SQLAlchemyRepository over one session.                                  *)
(***************************************************************************)
\* model.query.get(id) on the places table: the session's object, which
\* carries the assignments no commit has flushed yet
PlaceView == [p \in DOMAIN places |-> IF p \in DOMAIN dirty THEN dirty[p] ELSE places[p]]

\* a bug that keeps the loaded collections across a commit
Committed_Unexpired(u, p, a, r) ==
    /\ UNCHANGED <<existing_emails, loaded>>
    /\ users' = u
    /\ places' = p
    /\ amenities' = a
    /\ reviews' = r
    /\ dirty' = Empty

\* db.session.commit(): the pending assignments are flushed with the call's
\* own writes, and every loaded attribute and collection is expired
Committed(u, p, a, r) ==
    /\ UNCHANGED existing_emails
    /\ users' = u
    /\ places' = p
    /\ amenities' = a
    /\ reviews' = r
    /\ dirty' = Empty
    /\ loaded' = Empty

\* db.session.rollback(): the call's writes and the pending assignments are
\* discarded
RolledBack ==
    /\ UNCHANGED <<users, places, amenities, reviews, existing_emails>>
    /\ dirty' = Empty
    /\ loaded' = Empty

\* the call raised before it touched the session
NoWrite == UNCHANGED <<users, places, amenities, reviews, dirty, existing_emails, loaded>>

\* a row whose attributes were assigned, under its (possibly reassigned)
\* primary key
ReKey(table, id, obj) ==
    [k \in (DOMAIN table \ {id}) \cup {obj.id} |-> IF k = obj.id THEN obj ELSE table[k]]

Remove(table, id) == [k \in DOMAIN table \ {id} |-> table[k]]

\* users.email is declared unique=True
EmailTaken(email, except) ==
    \E v \in DOMAIN users \ except : users[v].email = email

\* the call raised: nothing was created or deleted
Fail(err) ==
    /\ last' = Result(err, "raise")
    /\ UNCHANGED <<nextId, deleted, now, entity, calls, repos>>

\* the call returned and neither created nor deleted an entity
Done(ret) ==
    /\ last' = Result("none", ret)
    /\ UNCHANGED <<nextId, deleted, now, entity, calls, repos>>

\* the call returned the entity it stored under a fresh identifier
Created(kind) ==
    /\ last' = Result("none", "entity")
    /\ nextId' = [nextId EXCEPT ![kind] = @ + 1]
    /\ UNCHANGED <<deleted, now, entity, calls, repos>>

\* the call returned True after it removed the entity
Deleted(kind, id) ==
    /\ last' = Result("none", "true")
    /\ deleted' = [deleted EXCEPT ![kind] = @ \cup {id}]
    /\ UNCHANGED <<nextId, now, entity, calls, repos>>

(***************************************************************************)
(* User (part4).                                                           *)
(***************************************************************************)
UserRequired == {"first_name", "last_name", "email", "password"}

\* User.__init__(first_name, last_name, email, password, is_admin=False)
UserInit(data, salt) ==
    IF ~(UserRequired \subseteq DOMAIN data) \/ ~(DOMAIN data \subseteq UserRequired \cup {"is_admin"})
    THEN [err |-> "type_error"]
    ELSE IF data.first_name = <<>> \/ Len(data.first_name) > 50
    THEN [err |-> "validation"]
    ELSE IF data.last_name = <<>> \/ Len(data.last_name) > 50
    THEN [err |-> "validation"]
    ELSE IF Has(data, "is_admin") /\ data.is_admin \notin BOOLEAN
    THEN [err |-> "type_error"]
    ELSE IF ~EmailMatches(Lower(Strip(data.email)))
    THEN [err |-> "validation"]
    ELSE IF data.password = <<>> \/ Len(data.password) < 8
    THEN [err |-> "validation"]
    ELSE [err |-> "none",
          obj |-> [first_name |-> data.first_name,
                   last_name |-> data.last_name,
                   email |-> Lower(Strip(data.email)),
                   is_admin |-> IF Has(data, "is_admin") THEN data.is_admin ELSE FALSE,
                   password |-> HashPassword(data.password, salt)]]

\* HBnBFacade.create_user
CreateUser(data, salt) ==
    LET r == UserInit(data, salt)
        id == nextId.user
    IN  IF r.err # "none"
        THEN NoWrite /\ Fail(r.err)
        ELSE IF EmailTaken(r.obj.email, {})
        THEN RolledBack /\ Fail("integrity")
        ELSE /\ id <= MaxUsers
             /\ Committed(users @@ (id :> (r.obj @@ [id |-> id])), PlaceView, amenities, reviews)
             /\ Created("user")

\* HBnBFacade.get_user
GetUser(id) ==
    /\ NoWrite
    /\ IF id \in DOMAIN users THEN Done("entity") ELSE Fail("not_found")

\* HBnBFacade.get_all_users
GetAllUsers == NoWrite /\ Done("list")

\* update_user on a stored user that passed the e-mail check:
\* user.hash_password(data.pop('password')), then the repository's setattr
\* loop over the remaining keys
UserUpdated(user, data, salt) ==
    LET hashed == IF Has(data, "password")
                  THEN [user EXCEPT !.password = HashPassword(data.password, salt)]
                  ELSE user
    IN  SetAttrs(hashed, Without(data, "password"))

\* HBnBFacade.update_user
UpdateUser(id, data, salt) ==
    IF id \notin DOMAIN users
    THEN NoWrite /\ Fail("not_found")
    ELSE IF Has(data, "email") /\ ~EmailMatches(data.email)
    THEN NoWrite /\ Fail("validation")
    ELSE LET obj == UserUpdated(users[id], data, salt)
         IN  IF EmailTaken(obj.email, {id}) \/ (obj.id # id /\ obj.id \in DOMAIN users)
             THEN RolledBack /\ Fail("integrity")
             ELSE /\ Committed(ReKey(users, id, obj), PlaceView, amenities, reviews)
                  /\ Done("entity")

\* db.session.delete(obj) of a row that other rows reference through a
\* NOT NULL foreign key: the flush either raises (the references cannot be
\* nulled) or removes the row and leaves the references as they are
DeleteOutcomes(referenced) == IF referenced THEN {"none", "integrity"} ELSE {"none"}

UserReferenced(id) ==
    \/ \E p \in DOMAIN places : PlaceView[p].owner_id = id
    \/ \E r \in DOMAIN reviews : reviews[r].user_id = id

\* a relationship declared with cascade='all, delete-orphan'
PlacesAfterUserDelete_Cascade(id) ==
    [p \in {q \in DOMAIN places : PlaceView[q].owner_id # id} |-> PlaceView[p]]

\* User.owned_places declares no cascade: the user's places stay
PlacesAfterUserDelete(id) == PlaceView

\* HBnBFacade.delete_user
DeleteUser(id) ==
    IF id \notin DOMAIN users
    THEN NoWrite /\ Fail("not_found")
    ELSE \E outcome \in DeleteOutcomes(UserReferenced(id)) :
            IF outcome = "integrity"
            THEN RolledBack /\ Fail("integrity")
            ELSE /\ Committed(Remove(users, id), PlacesAfterUserDelete(id), amenities, reviews)
                 /\ Deleted("user", id)

\* part3 User.__init__: the e-mail is matched as given and looked up in the
\* class-wide set User.existing_emails
OrmUserInit(data, salt) ==
    IF ~(UserRequired \subseteq DOMAIN data) \/ ~(DOMAIN data \subseteq UserRequired \cup {"is_admin"})
    THEN [err |-> "type_error"]
    ELSE IF data.first_name = <<>> \/ Len(data.first_name) > 50
    THEN [err |-> "validation"]
    ELSE IF data.last_name = <<>> \/ Len(data.last_name) > 50
    THEN [err |-> "validation"]
    ELSE IF Has(data, "is_admin") /\ data.is_admin \notin BOOLEAN
    THEN [err |-> "type_error"]
    ELSE IF ~EmailMatches(data.email)
    THEN [err |-> "validation"]
    ELSE IF data.email \in existing_emails
    THEN [err |-> "duplicate_email"]
    ELSE IF data.password = <<>> \/ Len(data.password) < 8
    THEN [err |-> "validation"]
    ELSE [err |-> "none",
          obj |-> [first_name |-> data.first_name,
                   last_name |-> data.last_name,
                   email |-> data.email,
                   is_admin |-> IF Has(data, "is_admin") THEN data.is_admin ELSE FALSE,
                   password |-> HashPassword(data.password, salt)]]

\* part3 HBnBFacade.create_user: User(**user_data) records the e-mail in
\* User.existing_emails, then user_repo.add(user)
OrmCreateUser(data, salt) ==
    LET r == OrmUserInit(data, salt)
        id == nextId.user
    IN  IF r.err # "none"
        THEN NoWrite /\ Fail(r.err)
        ELSE /\ existing_emails' = existing_emails \cup {data.email}
             /\ UNCHANGED <<amenities, reviews>>
             /\ dirty' = Empty
             /\ loaded' = Empty
             /\ IF EmailTaken(r.obj.email, {})
                THEN UNCHANGED <<users, places>> /\ Fail("integrity")
                ELSE /\ id <= MaxUsers
                     /\ users' = users @@ (id :> (r.obj @@ [id |-> id]))
                     /\ places' = PlaceView
                     /\ Created("user")

\* UserList.post: no credential is asked for; the payload goes to
\* create_user as it is unless its e-mail is already registered
PostUser(payload, salt) ==
    IF Has(payload, "email") /\ (\E v \in DOMAIN users : users[v].email = payload.email)
    THEN NoWrite /\ Fail("email_registered")
    ELSE CreateUser(payload, salt)

\* UserResource.put by the holder of a token whose identity is current_user
PutUser(current_user, user_id, payload, salt) ==
    IF current_user # user_id
    THEN NoWrite /\ Fail("unauthorized")
    ELSE IF Has(payload, "email") \/ Has(payload, "password")
    THEN NoWrite /\ Fail("validation")
    ELSE UpdateUser(user_id, payload, salt)

(***************************************************************************)
(* Amenity (part4).                                                        *)
(***************************************************************************)
\* Amenity.__init__(name)
AmenityInit(data) ==
    IF DOMAIN data # {"name"}
    THEN [err |-> "type_error"]
    ELSE IF data.name = <<>> \/ Len(Strip(data.name)) = 0 \/ Len(Strip(data.name)) > 50
    THEN [err |-> "validation"]
    ELSE [err |-> "none", obj |-> [name |-> Title(Strip(data.name))]]

\* HBnBFacade.create_amenity
CreateAmenity(data) ==
    LET r == AmenityInit(data)
        id == nextId.amenity
    IN  IF r.err # "none"
        THEN NoWrite /\ Fail(r.err)
        ELSE /\ id <= MaxAmenities
             /\ Committed(users, PlaceView, amenities @@ (id :> (r.obj @@ [id |-> id])), reviews)
             /\ Created("amenity")

\* HBnBFacade.get_amenity
GetAmenity(id) ==
    /\ NoWrite
    /\ IF id \in DOMAIN amenities THEN Done("entity") ELSE Fail("not_found")

\* HBnBFacade.get_all_amenities
GetAllAmenities == NoWrite /\ Done("list")

\* HBnBFacade.update_amenity
UpdateAmenity(id, data) ==
    IF id \notin DOMAIN amenities
    THEN NoWrite /\ Fail("not_found")
    ELSE IF Has(data, "name") /\ (data.name = <<>> \/ Len(data.name) > 50)
    THEN NoWrite /\ Fail("validation")
    ELSE LET obj == SetAttrs(amenities[id], data)
         IN  IF obj.id # id /\ obj.id \in DOMAIN amenities
             THEN RolledBack /\ Fail("integrity")
             ELSE /\ Committed(users, PlaceView, ReKey(amenities, id, obj), reviews)
                  /\ Done("entity")

\* the rows of place_amenity that name the amenity go with it
Unlinked(place, amenity) ==
    [place EXCEPT !.amenities = SelectSeq(@, LAMBDA a : a # amenity)]

\* HBnBFacade.delete_amenity
DeleteAmenity(id) ==
    IF id \notin DOMAIN amenities
    THEN NoWrite /\ Fail("not_found")
    ELSE /\ Committed(users, [p \in DOMAIN places |-> Unlinked(PlaceView[p], id)],
                      Remove(amenities, id), reviews)
         /\ Deleted("amenity", id)

(***************************************************************************)
(* Place (part4).                                                          *)
(***************************************************************************)
PlaceRequired == {"title", "price", "latitude", "longitude", "max_person"}

PlaceScalars == {"title", "description", "price", "latitude", "longitude", "max_person"}

\* a bug that drops the range checks of the coordinates and the capacity
PlaceBoundsViolated_PriceOnly(data) == Has(data, "price") /\ data.price < 0

\* the bound checks create_place and update_place run on the keys supplied
PlaceBoundsViolated(data) ==
    \/ Has(data, "price") /\ data.price < 0
    \/ Has(data, "max_person") /\ data.max_person < 1
    \/ Has(data, "latitude") /\ ~(-90 <= data.latitude /\ data.latitude <= 90)
    \/ Has(data, "longitude") /\ ~(-180 <= data.longitude /\ data.longitude <= 180)

\* a bug that takes the caller's id as the owner without looking it up
OwnerFound_Unchecked(current_user) == TRUE

\* create_place: owner = self.user_repo.get(current_user); if not owner: raise
OwnerFound(current_user) == current_user \in DOMAIN users

\* Place.__init__(title, description, price, latitude, longitude, owner, max_person)
PlaceInit(title, description, price, latitude, longitude, owner, max_person) ==
    IF title = <<>> \/ Len(title) > 100
    THEN [err |-> "validation"]
    ELSE IF price < 0
    THEN [err |-> "validation"]
    ELSE IF latitude < -90 \/ latitude > 90
    THEN [err |-> "validation"]
    ELSE IF longitude < -180 \/ longitude > 180
    THEN [err |-> "validation"]
    ELSE IF max_person \notin Int \/ max_person < 1
    THEN [err |-> "validation"]
    ELSE [err |-> "none",
          obj |-> [title |-> title, description |-> description, price |-> price,
                   latitude |-> latitude, longitude |-> longitude,
                   owner_id |-> owner, max_person |-> max_person, amenities |-> <<>>]]

\* an entry of data['amenities'] is a dict (with or without an 'id' key) or
\* a bare identifier
IsDict(entry) == entry.type = "dict"

\* a bug that links every listed id, stored or not
Resolved_Unfiltered(entries) == [i \in DOMAIN entries |-> entries[i].id]

\* the amenities the loop appends: those entries whose id is stored
RECURSIVE Resolved(_)
Resolved(entries) ==
    IF entries = <<>>
    THEN <<>>
    ELSE (IF Head(entries).id \in DOMAIN amenities THEN <<Head(entries).id>> ELSE <<>>)
            \o Resolved(Tail(entries))

\* create_place: amenity["id"] of a dict is read outside the try block
CreateEntryError(entries) ==
    IF \E i \in DOMAIN entries : IsDict(entries[i]) /\ ~Has(entries[i], "id")
    THEN "key_error"
    ELSE "none"

\* HBnBFacade.create_place
CreatePlace(data, current_user) ==
    LET id == nextId.place
    IN  IF ~(PlaceRequired \subseteq DOMAIN data)
        THEN NoWrite /\ Fail("validation")
        ELSE IF PlaceBoundsViolated(data)
        THEN NoWrite /\ Fail("validation")
        ELSE IF ~OwnerFound(current_user)
        THEN NoWrite /\ Fail("owner_not_found")
        ELSE IF ~Has(data, "description")
        THEN NoWrite /\ Fail("key_error")
        ELSE LET r == PlaceInit(data.title, data.description, data.price, data.latitude,
                                data.longitude, current_user, data.max_person)
             IN  IF r.err # "none"
                 THEN NoWrite /\ Fail(r.err)
                 ELSE IF Has(data, "amenities") /\ CreateEntryError(data.amenities) # "none"
                 THEN NoWrite /\ Fail(CreateEntryError(data.amenities))
                 ELSE LET linked == IF Has(data, "amenities")
                                    THEN Resolved(data.amenities)
                                    ELSE <<>>
                          obj == [r.obj EXCEPT !.amenities = linked] @@ [id |-> id]
                      IN  /\ id <= MaxPlaces
                          /\ Committed(users, PlaceView @@ (id :> obj), amenities, reviews)
                          /\ Created("place")

\* HBnBFacade.get_place
GetPlace(id) ==
    /\ NoWrite
    /\ IF id \in DOMAIN places THEN Done("entity") ELSE Fail("not_found")

\* HBnBFacade.get_all_places
GetAllPlaces == NoWrite /\ Done("list")

\* update_place: amenity['id'] of every entry is read with no try block
UpdateEntryError(entries) ==
    IF entries = <<>> \/ \A i \in DOMAIN entries : IsDict(entries[i]) /\ Has(entries[i], "id")
    THEN "none"
    ELSE LET first == CHOOSE i \in DOMAIN entries :
                        /\ ~(IsDict(entries[i]) /\ Has(entries[i], "id"))
                        /\ \A j \in 1..(i - 1) : IsDict(entries[j]) /\ Has(entries[j], "id")
         IN  IF IsDict(entries[first]) THEN "key_error" ELSE "type_error"

\* a bug that assigns every key of place_data the place has
SetScalars_EveryKey(place, data) ==
    [k \in DOMAIN place |-> IF Has(data, k) THEN data[k] ELSE place[k]]

\* for key in [...]: if key in place_data: setattr(place, key, place_data[key])
SetScalars(place, data) ==
    [k \in DOMAIN place |-> IF k \in PlaceScalars /\ Has(data, k) THEN data[k] ELSE place[k]]

\* a bug that appends the listed amenities to the ones already linked
PlaceUpdated_Appending(place, data) ==
    LET assigned == SetScalars(place, data)
    IN  IF Has(data, "amenities")
        THEN [assigned EXCEPT !.amenities = @ \o Resolved(data.amenities)]
        ELSE assigned

\* update_place on a stored place whose field-map passed the checks: the
\* scalar assignments, then the amenities replaced by the resolved list
PlaceUpdated(place, data) ==
    LET assigned == SetScalars(place, data)
    IN  IF Has(data, "amenities")
        THEN [assigned EXCEPT !.amenities = Resolved(data.amenities)]
        ELSE assigned

\* HBnBFacade.update_place
UpdatePlace(id, data) ==
    IF id \notin DOMAIN places
    THEN NoWrite /\ Fail("not_found")
    ELSE IF PlaceBoundsViolated(data)
    THEN NoWrite /\ Fail("validation")
    ELSE LET assigned == SetScalars(PlaceView[id], data)
         IN  IF Has(data, "amenities") /\ UpdateEntryError(data.amenities) # "none"
             THEN \* the loop raises after the scalar attributes were assigned
                  /\ UNCHANGED <<users, places, amenities, reviews, existing_emails, loaded>>
                  /\ dirty' = [p \in DOMAIN dirty \cup {id} |->
                                  IF p = id THEN assigned ELSE dirty[p]]
                  /\ Fail(UpdateEntryError(data.amenities))
             ELSE LET obj == PlaceUpdated(PlaceView[id], data)
                  IN  /\ Committed(users, [PlaceView EXCEPT ![id] = obj], amenities, reviews)
                      /\ Done("entity")

PlaceReferenced(id) == \E r \in DOMAIN reviews : reviews[r].place_id = id

\* HBnBFacade.delete_place
DeletePlace(id) ==
    IF id \notin DOMAIN places
    THEN NoWrite /\ Fail("not_found")
    ELSE \E outcome \in DeleteOutcomes(PlaceReferenced(id)) :
            IF outcome = "integrity"
            THEN RolledBack /\ Fail("integrity")
            ELSE /\ Committed(users, Remove(PlaceView, id), amenities, reviews)
                 /\ Deleted("place", id)

(***************************************************************************)
(* Review (part4 facade, part3 model).                                     *)
(***************************************************************************)
\* Review.__init__(text, rating, user, place)
ReviewInit(text, rating, user, place) ==
    IF text = <<>> \/ Len(text) < 1
    THEN [err |-> "validation"]
    ELSE IF rating < 1 \/ rating > 5
    THEN [err |-> "validation"]
    ELSE [err |-> "none",
          obj |-> [text |-> text, rating |-> rating, user_id |-> user, place_id |-> place]]

\* review_repo.get_by_attribute('place_id', place_id)
ReviewsOfPlace(place) == {r \in DOMAIN reviews : reviews[r].place_id = place}

\* the outcomes of the scan `if existing_review.user.id == user_id`: a review
\* whose author row is gone has user None; the rows come in store order
ScanOutcomes(place, user_id) ==
    LET scanned == ReviewsOfPlace(place)
        orphan == {r \in scanned : reviews[r].user_id \notin DOMAIN users}
        same == {r \in scanned : reviews[r].user_id \in DOMAIN users /\ reviews[r].user_id = user_id}
    IN  IF orphan = {} /\ same = {}
        THEN {"none"}
        ELSE {"attribute_error" : r \in orphan} \cup {"duplicate_review" : r \in same}

\* a bug that compares the owner object with the caller's id: never equal
IsOwner_ObjectCompared(place_id, user_id) == FALSE

\* place.owner.id == user_id
IsOwner(place_id, user_id) == PlaceView[place_id].owner_id = user_id

\* HBnBFacade.create_review
CreateReview(data, current_user) ==
    LET id == nextId.review
    IN  IF current_user \notin DOMAIN users
        THEN NoWrite /\ Fail("user_missing")
        ELSE IF ~Has(data, "place_id")
        THEN NoWrite /\ Fail("key_error")
        ELSE IF data.place_id \notin DOMAIN places
        THEN NoWrite /\ Fail("place_missing")
        ELSE IF PlaceView[data.place_id].owner_id \notin DOMAIN users
        THEN NoWrite /\ Fail("attribute_error")
        ELSE IF IsOwner(data.place_id, current_user)
        THEN NoWrite /\ Fail("self_review")
        ELSE \E scan \in ScanOutcomes(data.place_id, current_user) :
                IF scan # "none"
                THEN NoWrite /\ Fail(scan)
                ELSE IF ~Has(data, "text") \/ ~Has(data, "rating")
                THEN NoWrite /\ Fail("key_error")
                ELSE LET r == ReviewInit(data.text, data.rating, current_user, data.place_id)
                     IN  IF r.err # "none"
                         THEN NoWrite /\ Fail(r.err)
                         ELSE /\ id <= MaxReviews
                              /\ Committed(users, PlaceView, amenities,
                                           reviews @@ (id :> (r.obj @@ [id |-> id])))
                              /\ Created("review")

\* the requests that may be inside create_review at the same time
Requests == {"first", "second"}

\* create_review up to the end of its scan (the lookups, the owner test and
\* the loop over the place's reviews): the errors it can raise, or "none"
ReviewScanOutcomes(data, current_user) ==
    IF current_user \notin DOMAIN users
    THEN {"user_missing"}
    ELSE IF ~Has(data, "place_id")
    THEN {"key_error"}
    ELSE IF data.place_id \notin DOMAIN places
    THEN {"place_missing"}
    ELSE IF PlaceView[data.place_id].owner_id \notin DOMAIN users
    THEN {"attribute_error"}
    ELSE IF IsOwner(data.place_id, current_user)
    THEN {"self_review"}
    ELSE ScanOutcomes(data.place_id, current_user)

\* a request runs create_review as far as the end of the scan; nothing
\* holds the repository between the scan and the add
ReviewScan(request, data, current_user) ==
    /\ calls[request].pc = "idle"
    /\ NoWrite
    /\ \E scan \in ReviewScanOutcomes(data, current_user) :
          IF scan # "none"
          THEN Fail(scan)
          ELSE /\ calls' = [calls EXCEPT ![request] =
                              [pc |-> "scanned", data |-> data, user |-> current_user]]
               /\ UNCHANGED <<nextId, deleted, last, now, entity, repos>>

\* the request goes on: Review(...), then review_repo.add(review)
ReviewAdd(request) ==
    /\ calls[request].pc = "scanned"
    /\ calls' = [calls EXCEPT ![request] = [pc |-> "idle"]]
    /\ UNCHANGED <<deleted, now, entity, repos>>
    /\ LET data == calls[request].data
           id == nextId.review
           r == ReviewInit(data.text, data.rating, calls[request].user, data.place_id)
       IN  IF r.err # "none"
           THEN NoWrite /\ last' = Result(r.err, "raise") /\ UNCHANGED nextId
           ELSE /\ id <= MaxReviews
                /\ Committed(users, PlaceView, amenities,
                             reviews @@ (id :> (r.obj @@ [id |-> id])))
                /\ last' = Result("none", "entity")
                /\ nextId' = [nextId EXCEPT !.review = @ + 1]

\* place.reviews as the session holds it: the collection it loaded and has
\* not expired, or else the rows of reviews that name the place
PlaceReviews(place) ==
    IF place \in DOMAIN loaded THEN loaded[place] ELSE ReviewsOfPlace(place)

\* part3 HBnBFacade.create_review: as create_review above, and after
\* review_repo.add has committed, place.add_review(review) appends the
\* review to place.reviews, which loads the collection again
OrmCreateReview(data, current_user) ==
    LET id == nextId.review
    IN  \E scan \in ReviewScanOutcomes(data, current_user) :
            IF scan # "none"
            THEN NoWrite /\ Fail(scan)
            ELSE IF ~Has(data, "text") \/ ~Has(data, "rating")
            THEN NoWrite /\ Fail("key_error")
            ELSE LET r == ReviewInit(data.text, data.rating, current_user, data.place_id)
                 IN  IF r.err # "none"
                     THEN NoWrite /\ Fail(r.err)
                     ELSE /\ id <= MaxReviews
                          /\ UNCHANGED <<users, amenities, existing_emails>>
                          /\ places' = PlaceView
                          /\ dirty' = Empty
                          /\ reviews' = reviews @@ (id :> (r.obj @@ [id |-> id]))
                          /\ loaded' = (data.place_id :> (ReviewsOfPlace(data.place_id) \cup {id}))
                          /\ Created("review")

\* part3 HBnBFacade.get_reviews_by_place: return place.reviews
OrmGetReviewsByPlace(id) ==
    IF id \notin DOMAIN places
    THEN NoWrite /\ Fail("not_found")
    ELSE /\ UNCHANGED <<users, places, amenities, reviews, dirty, existing_emails>>
         /\ loaded' = [p \in DOMAIN loaded \cup {id} |-> PlaceReviews(p)]
         /\ Done("list")

\* HBnBFacade.get_review
GetReview(id) ==
    /\ NoWrite
    /\ IF id \in DOMAIN reviews THEN Done("entity") ELSE Fail("not_found")

\* HBnBFacade.get_all_reviews
GetAllReviews == NoWrite /\ Done("list")

\* HBnBFacade.update_review
UpdateReview(id, data) ==
    IF id \notin DOMAIN reviews
    THEN NoWrite /\ Fail("not_found")
    ELSE IF Has(data, "rating") /\ ~(1 <= data.rating /\ data.rating <= 5)
    THEN NoWrite /\ Fail("validation")
    ELSE LET obj == SetAttrs(reviews[id], data)
         IN  IF obj.id # id /\ obj.id \in DOMAIN reviews
             THEN RolledBack /\ Fail("integrity")
             ELSE /\ Committed(users, PlaceView, amenities, ReKey(reviews, id, obj))
                  /\ Done("entity")

\* HBnBFacade.delete_review
DeleteReview(id) ==
    IF id \notin DOMAIN reviews
    THEN NoWrite /\ Fail("not_found")
    ELSE /\ Committed(users, PlaceView, amenities, Remove(reviews, id))
         /\ Deleted("review", id)

\* HBnBFacade.get_reviews_by_place: place.reviews
GetReviewsByPlace(id) ==
    /\ NoWrite
    /\ IF id \in DOMAIN places THEN Done("list") ELSE Fail("not_found")

(***************************************************************************)
(* PlaceResource.put (part4): amenity names are resolved, then update_place *)
(* is called with the ids.                                                 *)
(***************************************************************************)
\* HBnBFacade.get_amenity_by_name:
\* amenity_repo.get_by_attribute('name', name.strip().title())
AmenitiesNamed(table, name) == {a \in DOMAIN table : table[a].name = Title(Strip(name))}

\* a bug that hands the ids of new amenities out without storing them
FindOrCreate_Uncommitted(names, table, next) ==
    [table |-> table, next |-> next + Len(names),
     ids |-> [i \in DOMAIN names |-> next + i - 1], err |-> "none"]

\* the find-or-create loop: each name is stripped and looked up; the first
\* match is taken, or create_amenity stores (and commits) a new amenity
RECURSIVE FindOrCreate(_, _, _)
FindOrCreate(names, table, next) ==
    IF names = <<>>
    THEN [table |-> table, next |-> next, ids |-> <<>>, err |-> "none"]
    ELSE LET name == Strip(Head(names))
             found == AmenitiesNamed(table, name)
         IN  IF found # {}
             THEN LET first == CHOOSE a \in found : \A b \in found : a <= b
                      rest == FindOrCreate(Tail(names), table, next)
                  IN  [rest EXCEPT !.ids = <<first>> \o @]
             ELSE LET r == AmenityInit([name |-> name])
                  IN  IF r.err # "none"
                      THEN [table |-> table, next |-> next, ids |-> <<>>, err |-> r.err]
                      ELSE LET stored == table @@ (next :> (r.obj @@ [id |-> next]))
                               rest == FindOrCreate(Tail(names), stored, next + 1)
                           IN  [rest EXCEPT !.ids = <<next>> \o @]

\* the rows of place_amenity for a list of amenities: one row per amenity
RECURSIVE Distinct(_)
Distinct(ids) ==
    IF ids = <<>>
    THEN <<>>
    ELSE <<Head(ids)>> \o Distinct(SelectSeq(Tail(ids), LAMBDA a : a # Head(ids)))

\* the flush of place.amenities: a list that names an amenity twice is
\* either written as one row or refused for the repeated primary key
LinkOutcomes(ids) == IF Distinct(ids) # ids THEN {"none", "integrity"} ELSE {"none"}

\* PlaceResource.put with a payload {'amenities': names}, sent by the owner
PutPlace(id, names) ==
    IF id \notin DOMAIN places
    THEN NoWrite /\ Fail("not_found")
    ELSE IF \E i \in DOMAIN names : Strip(names[i]) = <<>>
    THEN NoWrite /\ Fail("validation")
    ELSE LET f == FindOrCreate(names, amenities, nextId.amenity)
             created == f.next > nextId.amenity
             flushed == IF created THEN PlaceView ELSE places
         IN  /\ f.next <= MaxFindOrCreate + 1
             /\ UNCHANGED <<users, reviews, existing_emails, deleted, now, entity, calls, repos>>
             /\ amenities' = f.table
             /\ nextId' = [nextId EXCEPT !.amenity = f.next]
             /\ IF f.err # "none"
                THEN /\ places' = flushed
                     /\ dirty' = IF created THEN Empty ELSE dirty
                     /\ loaded' = IF created THEN Empty ELSE loaded
                     /\ last' = Result(f.err, "raise")
                ELSE \E outcome \in LinkOutcomes(f.ids) :
                        /\ dirty' = Empty
                        /\ loaded' = Empty
                        /\ IF outcome = "integrity"
                           THEN /\ places' = flushed
                                /\ last' = Result("integrity", "raise")
                           ELSE /\ places' = [PlaceView EXCEPT ![id].amenities = Distinct(f.ids)]
                                /\ last' = Result("none", "entity")

\* PlaceList.post by an authenticated caller, with the payload's scalar
\* fields and its list of amenity names: the find-or-create loop (each
\* create_amenity commits), then create_place with the ids; a ValueError
\* answers 400, any other exception rolls the session back and answers 500
PostPlace(current_user, data, names) ==
    IF current_user \notin DOMAIN users
    THEN NoWrite /\ Fail("not_found")
    ELSE IF \E i \in DOMAIN names : Strip(names[i]) = <<>>
    THEN NoWrite /\ Fail("validation")
    ELSE LET f == FindOrCreate(names, amenities, nextId.amenity)
             created == f.next > nextId.amenity
             flushed == IF created THEN PlaceView ELSE places
             id == nextId.place
             r == PlaceInit(data.title, data.description, data.price, data.latitude,
                            data.longitude, current_user, data.max_person)
             err == IF f.err # "none" THEN f.err
                    ELSE IF PlaceBoundsViolated(data) THEN "validation"
                    ELSE IF ~OwnerFound(current_user) THEN "owner_not_found"
                    ELSE r.err
         IN  /\ f.next <= MaxFindOrCreate + 1
             /\ UNCHANGED <<users, reviews, existing_emails, deleted, now, entity, calls, repos>>
             /\ amenities' = f.table
             /\ \E outcome \in (IF err = "none" THEN LinkOutcomes(f.ids) ELSE {err}) :
                   IF outcome # "none"
                   THEN /\ places' = flushed
                        /\ dirty' = IF created \/ outcome = "integrity" THEN Empty ELSE dirty
                        /\ loaded' = IF created \/ outcome = "integrity" THEN Empty ELSE loaded
                        /\ nextId' = [nextId EXCEPT !.amenity = f.next]
                        /\ last' = Result(outcome, "raise")
                   ELSE /\ id <= MaxPlaces
                        /\ places' = PlaceView @@
                              (id :> ([r.obj EXCEPT !.amenities = Distinct(f.ids)] @@ [id |-> id]))
                        /\ dirty' = Empty
                        /\ loaded' = Empty
                        /\ nextId' = [nextId EXCEPT !.amenity = f.next, !.place = id + 1]
                        /\ last' = Result("none", "entity")

\* HBnBFacade.get_amenity_by_name
GetAmenityByName(name) == NoWrite /\ Done("list")

\* BaseModel.__init__: a fresh id and both timestamps from the clock
BaseModelInit(id) == [id |-> id, created_at |-> now, updated_at |-> now]

(***************************************************************************)
(* InMemoryRepository: a dict from id to object.                           *)
(***************************************************************************)
\* InMemoryRepository.add
MemAdd(storage, obj) ==
    [k \in DOMAIN storage \cup {obj.id} |-> IF k = obj.id THEN obj ELSE storage[k]]

\* InMemoryRepository.get: the object, or None
MemHas(storage, id) == id \in DOMAIN storage

\* InMemoryRepository.update with a dict, for a stored id: the object stays
\* under the key it was added with
MemUpdate(storage, id, data) == [storage EXCEPT ![id] = SetAttrs(@, data)]

\* InMemoryRepository.update with an object: self._storage[obj_id] = data
MemReplace(storage, id, obj) ==
    [k \in DOMAIN storage \cup {id} |-> IF k = id THEN obj ELSE storage[k]]

\* InMemoryRepository.delete
MemDelete(storage, id) == [k \in DOMAIN storage \ {id} |-> storage[k]]

\* the in-memory repositories after a call; there is no session
MemState(u, p, a, r) ==
    /\ users' = u
    /\ places' = p
    /\ amenities' = a
    /\ reviews' = r
    /\ UNCHANGED <<dirty, loaded>>

MemUnchanged == UNCHANGED <<users, places, amenities, reviews, dirty, loaded>>

(***************************************************************************)
(* The part2 facade.                                                       *)
(***************************************************************************)
\* part2 User.__init__(first_name, last_name, email, is_admin=False), up to
\* the uniqueness check
MemUserInit(data) ==
    IF ~({"first_name", "last_name", "email"} \subseteq DOMAIN data)
        \/ ~(DOMAIN data \subseteq {"first_name", "last_name", "email", "is_admin"})
    THEN [err |-> "type_error"]
    ELSE IF data.first_name = <<>> \/ Len(data.first_name) > 50
    THEN [err |-> "validation"]
    ELSE IF data.last_name = <<>> \/ Len(data.last_name) > 50
    THEN [err |-> "validation"]
    ELSE IF Has(data, "is_admin") /\ data.is_admin \notin BOOLEAN
    THEN [err |-> "type_error"]
    ELSE IF ~EmailMatches(data.email)
    THEN [err |-> "validation"]
    ELSE IF data.email \in existing_emails
    THEN [err |-> "duplicate_email"]
    ELSE [err |-> "none",
          obj |-> [first_name |-> data.first_name,
                   last_name |-> data.last_name,
                   email |-> data.email,
                   is_admin |-> IF Has(data, "is_admin") THEN data.is_admin ELSE FALSE,
                   places |-> <<>>,
                   reviews |-> <<>>]]

\* part2 HBnBFacade.create_user
MemCreateUser(data) ==
    LET r == MemUserInit(data)
        id == nextId.user
    IN  IF r.err # "none"
        THEN MemUnchanged /\ UNCHANGED existing_emails /\ Fail(r.err)
        ELSE /\ id <= MaxUsers
             /\ existing_emails' = existing_emails \cup {data.email}
             /\ MemState(MemAdd(users, r.obj @@ BaseModelInit(id)), places, amenities, reviews)
             /\ Created("user")

\* part2 HBnBFacade.get_user, get_amenity, get_place, get_review: the
\* repository's get never raises KeyError, so None is returned as it is
MemGet(storage, id) ==
    /\ MemUnchanged
    /\ UNCHANGED existing_emails
    /\ IF MemHas(storage, id) THEN Done("entity") ELSE Done("absent")

MemGetUser(id) == MemGet(users, id)

MemGetAmenity(id) == MemGet(amenities, id)

MemGetPlace(id) == MemGet(places, id)

MemGetReview(id) == MemGet(reviews, id)

\* part2 HBnBFacade.update_user
MemUpdateUser(id, data) ==
    /\ UNCHANGED existing_emails
    /\ IF ~MemHas(users, id)
       THEN MemUnchanged /\ Fail("not_found")
       ELSE MemState(MemUpdate(users, id, data), places, amenities, reviews) /\ Done("entity")

\* part2 Amenity.__init__(name)
MemAmenityInit(data) ==
    IF DOMAIN data # {"name"}
    THEN [err |-> "type_error"]
    ELSE IF data.name = <<>> \/ Len(data.name) > 50
    THEN [err |-> "validation"]
    ELSE [err |-> "none", obj |-> [name |-> data.name]]

\* part2 HBnBFacade.create_amenity
MemCreateAmenity(data) ==
    LET r == MemAmenityInit(data)
        id == nextId.amenity
    IN  /\ UNCHANGED existing_emails
        /\ IF r.err # "none"
           THEN MemUnchanged /\ Fail(r.err)
           ELSE /\ id <= MaxAmenities
                /\ MemState(users, places, MemAdd(amenities, r.obj @@ BaseModelInit(id)), reviews)
                /\ Created("amenity")

\* part2 HBnBFacade.update_amenity
MemUpdateAmenity(id, data) ==
    /\ UNCHANGED existing_emails
    /\ IF ~MemHas(amenities, id)
       THEN MemUnchanged /\ Fail("not_found")
       ELSE MemState(users, places, MemUpdate(amenities, id, data), reviews) /\ Done("entity")

\* part2 Place.__init__; owner is the User object, held here by its id
MemPlaceInit(title, description, price, latitude, longitude, owner, max_person) ==
    IF title = <<>> \/ Len(title) > 100
    THEN [err |-> "validation"]
    ELSE IF price < 0
    THEN [err |-> "validation"]
    ELSE IF latitude < -90 \/ latitude > 90
    THEN [err |-> "validation"]
    ELSE IF longitude < -180 \/ longitude > 180
    THEN [err |-> "validation"]
    ELSE IF max_person < 1
    THEN [err |-> "validation"]
    ELSE [err |-> "none",
          obj |-> [title |-> title, description |-> description, price |-> price,
                   latitude |-> latitude, longitude |-> longitude,
                   owner |-> owner, max_person |-> max_person,
                   reviews |-> <<>>, amenities |-> <<>>]]

MemPlaceRequired ==
    {"title", "description", "price", "latitude", "longitude", "owner_id", "max_person"}

\* part2 create_place and update_place: amenity["id"] of every entry
MemEntryError(entries) == UpdateEntryError(entries)

\* part2 HBnBFacade.create_place
MemCreatePlace(data) ==
    LET id == nextId.place
    IN  /\ UNCHANGED existing_emails
        /\ IF ~(MemPlaceRequired \subseteq DOMAIN data)
           THEN MemUnchanged /\ Fail("validation")
           ELSE IF PlaceBoundsViolated(data)
           THEN MemUnchanged /\ Fail("validation")
           ELSE IF ~MemHas(users, data.owner_id)
           THEN MemUnchanged /\ Fail("owner_not_found")
           ELSE LET r == MemPlaceInit(data.title, data.description, data.price,
                                      data.latitude, data.longitude, data.owner_id,
                                      data.max_person)
                IN  IF r.err # "none"
                    THEN MemUnchanged /\ Fail(r.err)
                    ELSE IF Has(data, "amenities") /\ MemEntryError(data.amenities) # "none"
                    THEN MemUnchanged /\ Fail(MemEntryError(data.amenities))
                    ELSE LET linked == IF Has(data, "amenities")
                                       THEN Resolved(data.amenities)
                                       ELSE <<>>
                             obj == [r.obj EXCEPT !.amenities = linked] @@ BaseModelInit(id)
                         IN  /\ id <= MaxPlaces
                             /\ MemState(users, MemAdd(places, obj), amenities, reviews)
                             /\ Created("place")

\* part2 HBnBFacade.update_place: the stored object itself is assigned to
MemUpdatePlace(id, data) ==
    /\ UNCHANGED existing_emails
    /\ IF ~MemHas(places, id)
       THEN MemUnchanged /\ Fail("not_found")
       ELSE IF PlaceBoundsViolated(data)
       THEN MemUnchanged /\ Fail("validation")
       ELSE LET assigned == SetScalars(places[id], data)
            IN  IF Has(data, "amenities") /\ MemEntryError(data.amenities) # "none"
                THEN /\ MemState(users, [places EXCEPT ![id] = assigned], amenities, reviews)
                     /\ Fail(MemEntryError(data.amenities))
                ELSE LET obj == IF Has(data, "amenities")
                                THEN [assigned EXCEPT !.amenities = Resolved(data.amenities)]
                                ELSE assigned
                     IN  /\ MemState(users, MemReplace(places, id, obj), amenities, reviews)
                         /\ Done("entity")

\* part2 Review.__init__; place and user are the objects, held here by id
MemReviewInit(text, rating, place, user) ==
    IF text = <<>> \/ Len(text) < 1
    THEN [err |-> "validation"]
    ELSE IF rating < 1 \/ rating > 5
    THEN [err |-> "validation"]
    ELSE [err |-> "none",
          obj |-> [text |-> text, rating |-> rating, place |-> place, user |-> user]]

\* part2 HBnBFacade.create_review
MemCreateReview(data) ==
    LET id == nextId.review
    IN  /\ UNCHANGED existing_emails
        /\ IF ~Has(data, "user_id")
           THEN MemUnchanged /\ Fail("key_error")
           ELSE IF ~MemHas(users, data.user_id)
           THEN MemUnchanged /\ Fail("user_missing")
           ELSE IF ~Has(data, "place_id")
           THEN MemUnchanged /\ Fail("key_error")
           ELSE IF ~MemHas(places, data.place_id)
           THEN MemUnchanged /\ Fail("place_missing")
           ELSE IF ~Has(data, "text") \/ ~Has(data, "rating")
           THEN MemUnchanged /\ Fail("key_error")
           ELSE LET r == MemReviewInit(data.text, data.rating, data.place_id, data.user_id)
                IN  IF r.err # "none"
                    THEN MemUnchanged /\ Fail(r.err)
                    ELSE /\ id <= MaxReviews
                         /\ MemState(users, places, amenities,
                                     MemAdd(reviews, r.obj @@ BaseModelInit(id)))
                         /\ Created("review")

\* part2 HBnBFacade.update_review
MemUpdateReview(id, data) ==
    /\ UNCHANGED existing_emails
    /\ IF ~MemHas(reviews, id)
       THEN MemUnchanged /\ Fail("not_found")
       ELSE MemState(users, places, amenities, MemUpdate(reviews, id, data)) /\ Done("entity")

\* part2 HBnBFacade.delete_review
MemDeleteReview(id) ==
    /\ UNCHANGED existing_emails
    /\ IF ~MemHas(reviews, id)
       THEN MemUnchanged /\ Fail("not_found")
       ELSE MemState(users, places, amenities, MemDelete(reviews, id)) /\ Deleted("review", id)

\* the attributes of the part2 entities that hold another entity (the
\* object, not its id)
MemObjectAttrs == {"place", "user", "owner"}

\* InMemoryRepository.get_by_attribute with an identifier as the value:
\* getattr(obj, attr_name) == attr_value; the entities define no __eq__, so
\* an attribute that holds an object never equals an identifier
MemGetByAttribute(storage, attr_name, attr_value) ==
    {k \in DOMAIN storage :
        /\ attr_name \notin MemObjectAttrs
        /\ storage[k][attr_name] = attr_value}

\* what part2 get_reviews_by_place returns: reviews if reviews else []
MemReviewsByPlace(place_id) == MemGetByAttribute(reviews, "place", place_id)

\* part2 HBnBFacade.get_reviews_by_place
MemGetReviewsByPlace(place_id) ==
    /\ MemUnchanged
    /\ UNCHANGED existing_emails
    /\ Done("list")

(***************************************************************************)
(* The two repositories behind the one interface, called in step.  A call  *)
(* is a record with its method name and arguments; an outcome has the      *)
(* error raised, the kind of value returned and the objects returned.      *)
(***************************************************************************)
Outcome(err, ret, value) == [err |-> err, ret |-> ret, value |-> value]

\* InMemoryRepository: the storage after the call, and the call's outcome
InMemoryRepository(storage, call) ==
    CASE call.op = "add" ->
            [store |-> MemAdd(storage, call.obj), last |-> Outcome("none", "none", {})]
      [] call.op = "get" ->
            [store |-> storage,
             last |-> IF MemHas(storage, call.id)
                      THEN Outcome("none", "entity", {storage[call.id]})
                      ELSE Outcome("none", "absent", {})]
      [] call.op = "get_all" ->
            [store |-> storage, last |-> Outcome("none", "list", Range(storage))]
      [] call.op = "update" /\ call.kind = "dict" ->
            IF ~MemHas(storage, call.id)
            THEN [store |-> storage, last |-> Outcome("key_error", "raise", {})]
            ELSE [store |-> MemUpdate(storage, call.id, call.data),
                  last |-> Outcome("none", "entity", {MemUpdate(storage, call.id, call.data)[call.id]})]
      [] call.op = "update" /\ call.kind = "entity" ->
            [store |-> MemReplace(storage, call.id, call.data),
             last |-> Outcome("none", "entity", {call.data})]
      [] call.op = "delete" ->
            IF MemHas(storage, call.id)
            THEN [store |-> MemDelete(storage, call.id), last |-> Outcome("none", "true", {})]
            ELSE [store |-> storage, last |-> Outcome("none", "false", {})]
      [] call.op = "get_by_attribute" ->
            IF \E k \in DOMAIN storage : ~Has(storage[k], call.attr_name)
            THEN [store |-> storage, last |-> Outcome("attribute_error", "raise", {})]
            ELSE [store |-> storage,
                  last |-> Outcome("none", "list",
                              {storage[k] : k \in MemGetByAttribute(storage, call.attr_name,
                                                                   call.attr_value)})]

\* the mapped columns of the model class the relational repository serves
Columns == {"id", "name"}

\* SQLAlchemyRepository: the table after the call, and the call's outcome
SQLAlchemyRepository(table, call) ==
    CASE call.op = "add" ->
            IF call.obj.id \in DOMAIN table
            THEN [store |-> table, last |-> Outcome("integrity", "raise", {})]
            ELSE [store |-> table @@ (call.obj.id :> call.obj),
                  last |-> Outcome("none", "none", {})]
      [] call.op = "get" ->
            [store |-> table,
             last |-> IF call.id \in DOMAIN table
                      THEN Outcome("none", "entity", {table[call.id]})
                      ELSE Outcome("none", "absent", {})]
      [] call.op = "get_all" ->
            [store |-> table, last |-> Outcome("none", "list", Range(table))]
      [] call.op = "update" ->
            IF call.id \notin DOMAIN table
            THEN [store |-> table, last |-> Outcome("key_error", "raise", {})]
            ELSE IF call.kind = "dict"
            THEN [store |-> [table EXCEPT ![call.id] = SetAttrs(@, call.data)],
                  last |-> Outcome("none", "entity", {SetAttrs(table[call.id], call.data)})]
            ELSE [store |-> table, last |-> Outcome("none", "entity", {table[call.id]})]
      [] call.op = "delete" ->
            IF call.id \in DOMAIN table
            THEN [store |-> Remove(table, call.id), last |-> Outcome("none", "true", {})]
            ELSE [store |-> table, last |-> Outcome("none", "false", {})]
      [] call.op = "get_by_attribute" ->
            IF call.attr_name \notin Columns
            THEN [store |-> table, last |-> Outcome("value_error", "raise", {})]
            ELSE [store |-> table,
                  last |-> Outcome("none", "list",
                              {table[k] : k \in {j \in DOMAIN table :
                                  table[j][call.attr_name] = call.attr_value}})]

\* the same call is made on both repositories
Call(call) ==
    /\ repos' = [memory |-> InMemoryRepository(repos.memory.store, call),
                 relational |-> SQLAlchemyRepository(repos.relational.store, call)]
    /\ UNCHANGED <<users, places, amenities, reviews, dirty, existing_emails, nextId,
                   deleted, last, now, entity, calls, loaded>>

(***************************************************************************)
(* BaseModel: identity, timestamps, save and update.  datetime.now() reads  *)
(* the clock; time passes between calls, not during one.                   *)
(***************************************************************************)
\* the clock advances
Tick ==
    /\ now < MaxClock
    /\ now' = now + 1
    /\ UNCHANGED <<users, places, amenities, reviews, dirty, existing_emails, nextId,
                   deleted, last, entity, calls, repos, loaded>>

\* a bug that drops the hasattr test
HasAttr_Always(obj, key) == TRUE

\* hasattr(self, key)
HasAttr(obj, key) == key \in DOMAIN obj

\* BaseModel.save: self.updated_at = datetime.now()
Saved(obj) == [obj EXCEPT !.updated_at = now]

\* BaseModel.update(data): the guarded setattr loop, then save()
Updated(obj, data) ==
    LET set == {k \in DOMAIN data : HasAttr(obj, k)}
    IN  Saved([k \in DOMAIN obj \cup set |-> IF k \in set THEN data[k] ELSE obj[k]])

\* a new instance of BaseModel, or of a subclass that adds the given
\* attributes, replaces the one at hand
EntityNew(attrs) ==
    /\ entity' = BaseModelInit("uuid") @@ attrs
    /\ UNCHANGED <<users, places, amenities, reviews, dirty, existing_emails, nextId,
                   deleted, last, now, calls, repos, loaded>>

\* entity.save()
EntitySave ==
    /\ entity' = Saved(entity)
    /\ UNCHANGED <<users, places, amenities, reviews, dirty, existing_emails, nextId,
                   deleted, last, now, calls, repos, loaded>>

\* entity.update(data)
EntityUpdate(data) ==
    /\ entity' = Updated(entity, data)
    /\ UNCHANGED <<users, places, amenities, reviews, dirty, existing_emails, nextId,
                   deleted, last, now, calls, repos, loaded>>

(***************************************************************************)
(* The state after HBnBFacade.__init__: four empty repositories.           *)
(***************************************************************************)
Init ==
    /\ users = Empty
    /\ places = Empty
    /\ amenities = Empty
    /\ reviews = Empty
    /\ dirty = Empty
    /\ existing_emails = {}
    /\ now = 0
    /\ entity = [id |-> "uuid", created_at |-> 0, updated_at |-> 0]
    /\ nextId = [user |-> 1, place |-> 1, amenity |-> 1, review |-> 1]
    /\ deleted = [user |-> {}, place |-> {}, amenity |-> {}, review |-> {}]
    /\ calls = [r \in Requests |-> [pc |-> "idle"]]
    /\ loaded = Empty
    /\ repos = [memory |-> [store |-> Empty, last |-> Outcome("none", "none", {})],
                relational |-> [store |-> Empty, last |-> Outcome("none", "none", {})]]
    /\ last = Result("none", "none")

(***************************************************************************)
(* Inputs.                                                                 *)
(***************************************************************************)
EmailAna == <<"a", "@", "b", ".", "i", "o">>
EmailAnaUpper == <<"A", "@", "b", ".", "i", "o">>
EmailAnaPadded == <<" ", "a", "@", "b", ".", "i", "o">>
EmailBob == <<"b", "@", "b", ".", "i", "o">>
EmailBad == <<"a", "b", ".", "i", "o">>

\* salts bcrypt may draw
SaltA == "a"

SaltB == "b"

Salts == {SaltA, SaltB}

Password == <<"l", "o", "n", "g", "p", "a", "s", "s">>

NewUserData(email) ==
    [first_name |-> <<"A", "n", "a">>, last_name |-> <<"L", "e", "e">>,
     email |-> email, password |-> Password]

UserIds == 1..MaxUsers
PlaceIds == 1..MaxPlaces
AmenityIds == 1..MaxAmenities
ReviewIds == 1..MaxReviews

(***************************************************************************)
(* The user operations of the part4 facade.                                *)
(***************************************************************************)
UserCreateInputs ==
    {NewUserData(e) : e \in {EmailAna, EmailAnaUpper, EmailAnaPadded, EmailBob, EmailBad}}

UserUpdateInputs ==
    {[email |-> e] : e \in {EmailAna, EmailAnaUpper, EmailAnaPadded, EmailBob}}
        \cup {[password |-> Password, last_name |-> <<"K", "i", "m">>]}

NextUsers ==
    \/ \E data \in UserCreateInputs : CreateUser(data, SaltA)
    \/ \E id \in UserIds : GetUser(id)
    \/ \E id \in UserIds, data \in UserUpdateInputs : UpdateUser(id, data, SaltA)
    \/ \E id \in UserIds : DeleteUser(id)

SpecUsers == Init /\ [][NextUsers]_vars

\* the e-mail a stored user is compared by: trimmed and lower-cased
NormalizedEmail(u) == Lower(Strip(users[u].email))

\* C1: no two stored users have e-mails that are equal after trimming and
\* lower-casing.
C1_UniqueNormalizedEmail ==
    \A u, v \in DOMAIN users : u # v => NormalizedEmail(u) # NormalizedEmail(v)

(***************************************************************************)
(* The review operations of the part4 facade, on the places of two users.  *)
(***************************************************************************)
Loft ==
    [title |-> <<"L", "o", "f", "t">>, description |-> <<"n", "i", "c", "e">>,
     price |-> 100, latitude |-> 40, longitude |-> -73, max_person |-> 2]

Great == <<"G", "r", "e", "a", "t">>

ReviewCreateInputs ==
    {[place_id |-> p, text |-> Great, rating |-> r] : p \in PlaceIds, r \in {0, 5, 6}}
        \cup {[place_id |-> p, text |-> <<>>, rating |-> 5] : p \in PlaceIds}

ReviewUpdateInputs ==
    {[rating |-> r] : r \in {0, 5, 6}}
        \cup {[text |-> t] : t \in {Great, <<>>}}
        \cup {[user_id |-> u] : u \in UserIds}
        \cup {[place_id |-> p] : p \in PlaceIds}

NextReviews ==
    \/ \E e \in {EmailAna, EmailBob} : CreateUser(NewUserData(e), SaltA)
    \/ \E u \in UserIds : CreatePlace(Loft, u)
    \/ \E data \in ReviewCreateInputs, u \in UserIds : CreateReview(data, u)
    \/ \E id \in ReviewIds : GetReview(id)
    \/ \E id \in ReviewIds, data \in ReviewUpdateInputs : UpdateReview(id, data)
    \/ \E id \in ReviewIds : DeleteReview(id)

SpecReviews == Init /\ [][NextReviews]_vars

\* C2: no stored review has an author that is the owner of the review's
\* place.
C2_NoSelfReview ==
    \A r \in DOMAIN reviews :
        reviews[r].place_id \in DOMAIN places
            => PlaceView[reviews[r].place_id].owner_id # reviews[r].user_id

\* C3: the review repository holds at most one review for each
\* (author, place) pair.
C3_OneReviewPerPair ==
    \A r, q \in DOMAIN reviews :
        r # q => ~(/\ reviews[r].user_id = reviews[q].user_id
                   /\ reviews[r].place_id = reviews[q].place_id)

C6_ValidReviews ==
    \A r \in DOMAIN reviews :
        /\ reviews[r].rating \in 1..5
        /\ reviews[r].text # <<>>

(***************************************************************************)
(* The place operations of the part4 facade.                               *)
(***************************************************************************)
Flat == <<"F", "l", "a", "t">>

Gift == <<"G", "i", "f", "t">>

Wifi == <<"w", "i", "f", "i">>

WiFi == <<"W", "i", "F", "i">>

\* Loft with every bounded field on a bound
Corner == [Loft EXCEPT !.price = 0, !.latitude = -90, !.longitude = -180, !.max_person = 1]

PlaceCreateInputs ==
    {Loft, Corner,
     [Loft EXCEPT !.price = -1],
     [Loft EXCEPT !.latitude = -91], [Loft EXCEPT !.latitude = 91],
     [Loft EXCEPT !.longitude = -181], [Loft EXCEPT !.longitude = 181],
     [Loft EXCEPT !.max_person = 0]}

PlaceUpdateInputs ==
    {[price |-> 0, latitude |-> 90, longitude |-> 180, max_person |-> 1],
     [price |-> -5],
     [latitude |-> -91], [latitude |-> 91],
     [longitude |-> -181], [longitude |-> 181],
     [max_person |-> 0],
     [title |-> Flat, price |-> -5],
     [title |-> Flat],
     [amenities |-> <<[type |-> "dict", id |-> 1]>>],
     [title |-> Flat, amenities |-> <<[type |-> "dict", id |-> 1], [type |-> "str", id |-> 1]>>],
     [title |-> Flat, amenities |-> <<[type |-> "dict"]>>],
     [owner |-> 2],
     [owner_id |-> 2, title |-> Gift],
     [amenities |-> <<>>],
     [amenities |-> <<[type |-> "dict", id |-> 2], [type |-> "dict", id |-> 1]>>],
     [amenities |-> <<[type |-> "dict", id |-> 2]>>]}

NextPlaces ==
    \/ CreateUser(NewUserData(EmailAna), SaltA)
    \/ CreateAmenity([name |-> Wifi])
    \/ \E data \in PlaceCreateInputs, u \in UserIds : CreatePlace(data, u)
    \/ \E id \in PlaceIds : GetPlace(id)
    \/ \E id \in PlaceIds, data \in PlaceUpdateInputs : UpdatePlace(id, data)

SpecPlaces == Init /\ [][NextPlaces]_vars

\* the place get_place(id) returns
StoredPlace(id) == PlaceView[id]

InBounds(place) ==
    /\ place.price >= 0
    /\ place.latitude >= -90 /\ place.latitude <= 90
    /\ place.longitude >= -180 /\ place.longitude <= 180
    /\ place.max_person >= 1

SuppliesOutOfBounds(data) ==
    \/ "price" \in DOMAIN data /\ data.price < 0
    \/ "latitude" \in DOMAIN data /\ (data.latitude < -90 \/ data.latitude > 90)
    \/ "longitude" \in DOMAIN data /\ (data.longitude < -180 \/ data.longitude > 180)
    \/ "max_person" \in DOMAIN data /\ data.max_person < 1

\* C5: every stored place has price >= 0, latitude in [-90, 90], longitude
\* in [-180, 180] and max_person >= 1, and a create_place or update_place
\* that supplies a value outside these bounds fails.
C5_PlaceBounds ==
    /\ [](\A p \in DOMAIN places : InBounds(places[p]) /\ InBounds(StoredPlace(p)))
    /\ [][/\ \A data \in PlaceCreateInputs, u \in UserIds :
                SuppliesOutOfBounds(data) /\ CreatePlace(data, u)
                    => last'.err # "none" /\ places' = places
          /\ \A id \in PlaceIds, data \in PlaceUpdateInputs :
                SuppliesOutOfBounds(data) /\ UpdatePlace(id, data)
                    => last'.err # "none" /\ places' = places]_vars

\* C5 witness: a stored place sits on the bounds, and an update of a stored
\* place with an out-of-range value was just refused.
C5_Witness ==
    /\ last.err = "validation"
    /\ \E p \in DOMAIN places :
          /\ places[p].price = 0
          /\ places[p].latitude = 90
          /\ places[p].longitude = 180
          /\ places[p].max_person = 1

\* C7: whenever update_place fails, the stored place's title, description,
\* price, latitude, longitude, max_person and amenities equal their values
\* before the call.
C7_FailedUpdateChangesNothing ==
    [][\A id \in DOMAIN places, data \in PlaceUpdateInputs :
          UpdatePlace(id, data) /\ last'.err # "none"
              => StoredPlace(id)' = StoredPlace(id)]_vars

\* the field-map passes create_place's required-field and bound checks, which
\* run before the owner is looked up
PassesPlaceChecks(data) == PlaceRequired \subseteq DOMAIN data /\ ~PlaceBoundsViolated(data)

\* C11 (as stated): create_place fails with the owner-not-found error
\* whenever the owner id identifies no stored user, and adds no place; a
\* successful create_place stores the place with that stored user as owner.
C11_OwnerNotFoundAlways ==
    [][\A data \in PlaceCreateInputs, u \in UserIds :
          CreatePlace(data, u) =>
              /\ u \notin DOMAIN users =>
                    last'.err = "owner_not_found" /\ places' = places
              /\ last'.err = "none" =>
                    /\ u \in DOMAIN users'
                    /\ \A id \in {nextId.place} : StoredPlace(id)'.owner_id = u]_vars

\* C11 (amended): whenever the owner id identifies no stored user,
\* create_place fails and adds no place, and the failure is the
\* owner-not-found error when the field-map passes the required-field and
\* bound checks; a successful create_place stores the place with that stored
\* user as owner.
C11_OwnerResolved ==
    [][\A data \in PlaceCreateInputs, u \in UserIds :
          CreatePlace(data, u) =>
              /\ u \notin DOMAIN users =>
                    /\ last'.err # "none"
                    /\ places' = places
                    /\ PassesPlaceChecks(data) => last'.err = "owner_not_found"
              /\ last'.err = "none" =>
                    /\ u \in DOMAIN users'
                    /\ \A id \in {nextId.place} : StoredPlace(id)'.owner_id = u]_vars

\* C11 witness: a create_place for an unknown owner was just refused while a
\* place created for a stored owner is held.
C11_Witness ==
    /\ last.err = "owner_not_found"
    /\ \E p \in DOMAIN places : places[p].owner_id \in DOMAIN users

\* C12: for every stored place and every field-map passed to update_place,
\* maps with an owner or owner_id key included, the place's owner after the
\* call is the user it was before the call.
C12_OwnerImmutable ==
    [][\A id \in DOMAIN places, data \in PlaceUpdateInputs :
          UpdatePlace(id, data) =>
              /\ StoredPlace(id)'.owner_id = StoredPlace(id).owner_id
              /\ places'[id].owner_id = places[id].owner_id]_vars

\* C12 witness: an update_place whose field-map named another owner has
\* succeeded and assigned the title it carried.
C12_Witness ==
    /\ last.err = "none"
    /\ \E p \in DOMAIN places : places[p].title = Gift /\ places[p].owner_id = 1

\* the ids data['amenities'] lists
ListedIds(data) == {data.amenities[i].id : i \in DOMAIN data.amenities}

\* C13: after a successful update_place(id, data) whose data has 'amenities',
\* the place's amenities are exactly the stored amenities whose ids are
\* listed (ids that are not stored are skipped, nothing linked before is kept
\* unless listed); without the key the place's amenities are unchanged.
C13_AmenitiesReplaced ==
    [][\A id \in DOMAIN places, data \in PlaceUpdateInputs :
          UpdatePlace(id, data) /\ last'.err = "none" =>
              IF Has(data, "amenities")
              THEN Range(StoredPlace(id)'.amenities) = ListedIds(data) \cap DOMAIN amenities
              ELSE StoredPlace(id)'.amenities = StoredPlace(id).amenities]_vars

\* C13 witness: a place holds the stored amenity an update_place listed
\* (create_place is given no amenities here), next to a place with none.
C13_Witness ==
    /\ last.err = "none"
    /\ \E p, q \in DOMAIN places :
          /\ places[p].amenities = <<1>>
          /\ places[q].amenities = <<>>

(***************************************************************************)
(* The part4 facade, every operation.                                      *)
(***************************************************************************)
LoftWithWifi == [Loft EXCEPT !.price = 100] @@ [amenities |-> <<[type |-> "dict", id |-> 1]>>]

Next ==
    \/ \E e \in {EmailAna, EmailBob} : CreateUser(NewUserData(e), SaltA)
    \/ \E id \in UserIds : GetUser(id)
    \/ GetAllUsers
    \/ \E id \in UserIds : UpdateUser(id, [last_name |-> <<"L", "e", "e">>], SaltA)
    \/ \E id \in UserIds : DeleteUser(id)
    \/ CreateAmenity([name |-> Wifi])
    \/ \E id \in AmenityIds : GetAmenity(id)
    \/ GetAllAmenities
    \/ \E id \in AmenityIds : UpdateAmenity(id, [name |-> Title(Wifi)])
    \/ \E id \in AmenityIds : DeleteAmenity(id)
    \/ \E u \in UserIds : CreatePlace(LoftWithWifi, u)
    \/ \E id \in PlaceIds : GetPlace(id)
    \/ GetAllPlaces
    \/ \E id \in PlaceIds : UpdatePlace(id, [price |-> 100])
    \/ \E id \in PlaceIds : DeletePlace(id)
    \/ \E p \in PlaceIds, u \in UserIds :
          CreateReview([place_id |-> p, text |-> Great, rating |-> 5], u)
    \/ \E id \in ReviewIds : GetReview(id)
    \/ GetAllReviews
    \/ \E id \in PlaceIds : GetReviewsByPlace(id)
    \/ \E id \in ReviewIds, data \in {[rating |-> 5]} \cup {[id |-> k] : k \in ReviewIds} :
          UpdateReview(id, data)
    \/ \E id \in ReviewIds : DeleteReview(id)

Spec == Init /\ [][Next]_vars

\* C8: once a delete has succeeded for an id, every later get of that id
\* fails and the entity is in no later get_all result: a deleted id is never
\* stored again.
C8_DeletedStaysDeleted ==
    /\ deleted.user \cap DOMAIN users = {}
    /\ deleted.place \cap DOMAIN places = {}
    /\ deleted.amenity \cap DOMAIN amenities = {}
    /\ deleted.review \cap DOMAIN reviews = {}

MemUserData(email) ==
    [first_name |-> <<"A", "n", "a">>, last_name |-> <<"L", "e", "e">>, email |-> email]

MemLoft(owner) == Loft @@ [owner_id |-> owner]

NextMem ==
    \/ \E e \in {EmailAna, EmailBob} : MemCreateUser(MemUserData(e))
    \/ \E id \in UserIds : MemGetUser(id)
    \/ \E id \in UserIds : MemUpdateUser(id, [last_name |-> <<"K", "i", "m">>])
    \/ MemCreateAmenity([name |-> Wifi])
    \/ \E id \in AmenityIds : MemGetAmenity(id)
    \/ \E id \in AmenityIds : MemUpdateAmenity(id, [name |-> <<"p", "o", "o", "l">>])
    \/ \E u \in UserIds : MemCreatePlace(MemLoft(u))
    \/ \E id \in PlaceIds : MemGetPlace(id)
    \/ \E id \in PlaceIds : MemUpdatePlace(id, [price |-> 0])
    \/ \E p \in PlaceIds, u \in UserIds :
          MemCreateReview([user_id |-> u, place_id |-> p, text |-> Great, rating |-> 5])
    \/ \E id \in ReviewIds : MemGetReview(id)
    \/ \E id \in ReviewIds : MemUpdateReview(id, [rating |-> 4])
    \/ \E id \in ReviewIds : MemDeleteReview(id)
    \/ \E id \in PlaceIds : MemGetReviewsByPlace(id)

SpecMem == Init /\ [][NextMem]_vars

\* a call that failed with a lookup failure and left every repository as it
\* was
LookupFailure ==
    /\ last'.err = "not_found"
    /\ last'.ret = "raise"
    /\ UNCHANGED <<users, places, amenities, reviews>>

\* C9: for every id that is not stored, the facade's get, update and delete
\* of that entity type fail with a lookup failure, return no absent value
\* and leave every repository unchanged.
C9_MissingIdIsLookupFailure ==
    [][/\ \A id \in UserIds \ DOMAIN users :
            /\ MemGetUser(id) => LookupFailure
            /\ MemUpdateUser(id, [last_name |-> <<"K", "i", "m">>]) => LookupFailure
       /\ \A id \in AmenityIds \ DOMAIN amenities :
            /\ MemGetAmenity(id) => LookupFailure
            /\ MemUpdateAmenity(id, [name |-> <<"p", "o", "o", "l">>]) => LookupFailure
       /\ \A id \in PlaceIds \ DOMAIN places :
            /\ MemGetPlace(id) => LookupFailure
            /\ MemUpdatePlace(id, [price |-> 0]) => LookupFailure
       /\ \A id \in ReviewIds \ DOMAIN reviews :
            /\ MemGetReview(id) => LookupFailure
            /\ MemUpdateReview(id, [rating |-> 4]) => LookupFailure
            /\ MemDeleteReview(id) => LookupFailure]_vars

(***************************************************************************)
(* Amenity names: create_amenity, update_amenity and the handlers'        *)
(* find-or-create step.                                                    *)
(***************************************************************************)
AmenityNames == {Wifi, WiFi, <<" ">> \o Wifi}

AmenityNameLists == {<<Wifi>>, <<Wifi, WiFi>>}

NamedAmenityIds == 1..MaxFindOrCreate

NextAmenities ==
    \/ CreateUser(NewUserData(EmailAna), SaltA)
    \/ CreatePlace(Loft, 1)
    \/ \E n \in AmenityNames : CreateAmenity([name |-> n])
    \/ \E id \in NamedAmenityIds, n \in AmenityNames : UpdateAmenity(id, [name |-> n])
    \/ \E n \in AmenityNames : GetAmenityByName(n)
    \/ \E id \in PlaceIds, names \in AmenityNameLists : PutPlace(id, names)

SpecAmenities == Init /\ [][NextAmenities]_vars

\* the trimmed, case-normalized form of an amenity name
NormalizedName(name) == Title(Strip(name))

\* some names of the list are equal after trimming and case normalization
HasEqualNames(names) ==
    \E i, j \in DOMAIN names : i # j /\ NormalizedName(names[i]) = NormalizedName(names[j])

\* C14: when a place is updated with a list of amenity names of which
\* several are equal after trimming and case normalization, the
\* find-or-create step leaves exactly one amenity with that normalized name
\* in the amenity repository, and the place is associated with that amenity
\* only for those names.
C14_OneAmenityPerName ==
    [][\A id \in DOMAIN places, names \in AmenityNameLists :
          HasEqualNames(names) /\ PutPlace(id, names) /\ last'.err = "none" =>
              \A i \in DOMAIN names :
                  /\ Cardinality({a \in DOMAIN amenities' :
                        NormalizedName(amenities'[a].name) = NormalizedName(names[i])}) = 1
                  /\ \A b \in Range(StoredPlace(id)'.amenities) :
                        amenities'[b].name = NormalizedName(names[i])]_vars

\* C15: every stored amenity's name equals its own trimmed, case-normalized
\* form, so get_amenity_by_name finds the amenity for every case variant of
\* its name.
C15_NamesNormalized ==
    \A a \in DOMAIN amenities :
        /\ amenities[a].name = NormalizedName(amenities[a].name)
        /\ \A n \in AmenityNames :
              NormalizedName(n) = NormalizedName(amenities[a].name)
                  => a \in AmenitiesNamed(amenities, n)

\* C16: after every successful create_review for place P the new review is
\* stored in the review repository and is in the result of
\* get_reviews_by_place(P); get_reviews_by_place fails when the place id is
\* not stored.
C16_ReviewListedForPlace ==
    [][/\ \A p \in PlaceIds, u \in UserIds, id \in {nextId.review} :
            MemCreateReview([user_id |-> u, place_id |-> p, text |-> Great, rating |-> 5])
                /\ last'.err = "none"
                => id \in DOMAIN reviews' /\ id \in MemReviewsByPlace(p)'
       /\ \A p \in PlaceIds \ DOMAIN places :
            MemGetReviewsByPlace(p) => last'.err # "none"]_vars

(***************************************************************************)
(* Repository update with a partial field-map (in-memory repository).      *)
(***************************************************************************)
Kim == <<"K", "i", "m">>

\* field-maps with a key that names an attribute of User and with a key
\* that names none
RepoUpdateInputs ==
    {[last_name |-> Kim], [first_name |-> Kim], [nickname |-> Kim],
     [last_name |-> Kim, nickname |-> Kim]}

NextRepository ==
    \/ \E e \in {EmailAna, EmailBob} : MemCreateUser(MemUserData(e))
    \/ \E id \in UserIds : MemGetUser(id)
    \/ \E id \in UserIds, data \in RepoUpdateInputs : MemUpdateUser(id, data)

SpecRepository == Init /\ [][NextRepository]_vars

\* C17: repository update(id, field_map) with a partial field-map changes
\* only attributes the stored entity already has: a key that names no
\* existing attribute is ignored and adds no attribute to the entity.
C17_UnknownKeysIgnored ==
    [][\A id \in DOMAIN users, data \in RepoUpdateInputs :
          MemUpdateUser(id, data) =>
              /\ DOMAIN users'[id] = DOMAIN users[id]
              /\ \A k \in DOMAIN users[id] \ DOMAIN data : users'[id][k] = users[id][k]]_vars

(***************************************************************************)
(* The entity method update(data).                                         *)
(***************************************************************************)
EntityUpdateInputs ==
    {[id |-> "new-id-value", non_existing |-> "should_be_ignored"],
     [non_existing |-> "should_be_ignored"],
     [id |-> "uuid"],
     [created_at |-> 0, updated_at |-> 0],
     [name |-> WiFi]}

NextEntity ==
    \/ Tick
    \/ \E attrs \in {Empty, [name |-> Wifi]} : EntityNew(attrs)
    \/ EntitySave
    \/ \E data \in EntityUpdateInputs : EntityUpdate(data)

SpecEntity == Init /\ [][NextEntity]_vars

\* update(data) set the keys of data that name an attribute of the entity
\* (updated_at aside, which save() assigns), kept the other attributes and
\* added none
SetsExistingKeysOnly(data) ==
    /\ DOMAIN entity' = DOMAIN entity
    /\ \A k \in DOMAIN entity \ {"updated_at"} :
          entity'[k] = IF k \in DOMAIN data THEN data[k] ELSE entity[k]

ValidUserUpdates ==
    {[first_name |-> Kim], [email |-> EmailBob], [password |-> Password, last_name |-> Kim]}

ValidPlaceUpdates ==
    {[title |-> Flat], [price |-> 0, max_person |-> 1],
     [amenities |-> <<[type |-> "dict", id |-> 1]>>], [title |-> Flat, amenities |-> <<>>]}

NextUpdates ==
    \/ \E salt \in Salts : CreateUser(NewUserData(EmailAna), salt)
    \/ \E id \in UserIds, data \in ValidUserUpdates, salt \in Salts : UpdateUser(id, data, salt)
    \/ CreateAmenity([name |-> Wifi])
    \/ CreatePlace(Loft, 1)
    \/ \E id \in PlaceIds, data \in ValidPlaceUpdates : UpdatePlace(id, data)

SpecUpdates == Init /\ [][NextUpdates]_vars

\* C19 (as stated): for every stored entity and every valid partial
\* field-map d, applying the facade update with d a second time leaves the
\* entity with the field values the first application left.
C19_UpdateIdempotent ==
    [][/\ \A id \in DOMAIN users, d \in ValidUserUpdates, salt \in Salts :
            UpdateUser(id, d, salt) /\ last'.err = "none" =>
                \A again \in Salts : UserUpdated(users[id], d, again)' = (users[id])'
       /\ \A id \in DOMAIN places, d \in ValidPlaceUpdates :
            UpdatePlace(id, d) /\ last'.err = "none" =>
                PlaceUpdated(StoredPlace(id), d)' = StoredPlace(id)']_vars

\* C19 (amended): applying the facade update with d a second time leaves
\* the entity with the field values the first application left, except
\* that a d with a password stores a freshly salted hash of that password.
C19_UpdateIdempotentButHash ==
    [][/\ \A id \in DOMAIN users, d \in ValidUserUpdates, salt \in Salts :
            UpdateUser(id, d, salt) /\ last'.err = "none" =>
                \A again \in Salts :
                    /\ Without(UserUpdated(users[id], d, again), "password")'
                          = Without(users[id], "password")'
                    /\ IF Has(d, "password")
                       THEN CheckPassword(UserUpdated(users[id], d, again).password,
                                          d.password)'
                       ELSE UserUpdated(users[id], d, again)' = (users[id])'
       /\ \A id \in DOMAIN places, d \in ValidPlaceUpdates :
            UpdatePlace(id, d) /\ last'.err = "none" =>
                PlaceUpdated(StoredPlace(id), d)' = StoredPlace(id)']_vars

\* C19 witness: a user was updated with a map that carries a password and a
\* place was updated with a map that lists an amenity.
C19_Witness ==
    /\ \E u \in DOMAIN users : users[u].last_name = Kim
    /\ \E p \in DOMAIN places : places[p].amenities = <<1>>

(***************************************************************************)
(* The listing operations when the repository's query may fail.            *)
(***************************************************************************)
\* what SQLAlchemyRepository.get_all can do: model.query.all() returns the
\* rows, or the database raises
QueryOutcomes == {"rows", "raise"}

\* HBnBFacade.get_all_users: try: return user_repo.get_all()
\* except Exception: return []
GetAllUsersOn(outcome) ==
    NoWrite /\ IF outcome = "raise" THEN Done("list") ELSE GetAllUsers

\* HBnBFacade.get_all_amenities: try: return amenity_repo.get_all()
\* except Exception: return []
GetAllAmenitiesOn(outcome) ==
    NoWrite /\ IF outcome = "raise" THEN Done("list") ELSE GetAllAmenities

\* HBnBFacade.get_all_places: return place_repo.get_all()
GetAllPlacesOn(outcome) ==
    NoWrite /\ IF outcome = "raise" THEN Fail("database") ELSE GetAllPlaces

\* HBnBFacade.get_all_reviews: return review_repo.get_all()
GetAllReviewsOn(outcome) ==
    NoWrite /\ IF outcome = "raise" THEN Fail("database") ELSE GetAllReviews

\* a valid place field-map with no 'description' key
LoftUndescribed == Without(LoftWithWifi, "description")

NextListings ==
    \/ \E e \in {EmailAna, EmailBob} : CreateUser(NewUserData(e), SaltA)
    \/ \E id \in UserIds : DeleteUser(id)
    \/ CreateAmenity([name |-> Wifi])
    \/ \E u \in UserIds, data \in {LoftWithWifi, LoftUndescribed} : CreatePlace(data, u)
    \/ \E p \in PlaceIds, u \in UserIds :
          CreateReview([place_id |-> p, text |-> Great, rating |-> 5], u)
    \/ \E outcome \in QueryOutcomes : GetAllUsersOn(outcome)
    \/ \E outcome \in QueryOutcomes : GetAllAmenitiesOn(outcome)
    \/ \E outcome \in QueryOutcomes : GetAllPlacesOn(outcome)
    \/ \E outcome \in QueryOutcomes : GetAllReviewsOn(outcome)

SpecListings == Init /\ [][NextListings]_vars

\* C20: a failure raised by the repository's get_all inside a listing
\* operation of the facade reaches the facade's caller as an error (the
\* listing operations resolve no amenity entry, so the one absorbed failure
\* the claim allows is not in play).
C20_RepositoryFailureSurfaces ==
    [][(\/ GetAllUsersOn("raise")
        \/ GetAllAmenitiesOn("raise")
        \/ GetAllPlacesOn("raise")
        \/ GetAllReviewsOn("raise")) => last'.err # "none"]_vars

(***************************************************************************)
(* The place-creation flow of PlaceList.post.                              *)
(***************************************************************************)
PlacePostInputs == {Loft, [Loft EXCEPT !.price = -1], [Loft EXCEPT !.title = <<>>]}

NextPosts ==
    \/ \E e \in {EmailAna, EmailBob} : CreateUser(NewUserData(e), SaltA)
    \/ \E id \in NamedAmenityIds : DeleteAmenity(id)
    \/ \E u \in UserIds, data \in PlacePostInputs,
          names \in AmenityNameLists \cup {<<>>, <<Flat>>, <<Flat, Wifi>>} :
              PostPlace(u, data, names)

SpecPosts == Init /\ [][NextPosts]_vars

\* C21: in the place-creation flow, when create_place fails after the
\* find-or-create loop stored one or more new amenities, those amenities
\* remain stored in the amenity repository and no place is stored.
C21_AmenitiesOutliveFailedPlace ==
    [][\A u \in DOMAIN users, data \in PlacePostInputs,
          names \in AmenityNameLists \cup {<<>>, <<Flat>>, <<Flat, Wifi>>} :
          LET f == FindOrCreate(names, amenities, nextId.amenity)
          IN  /\ PostPlace(u, data, names)
              /\ f.err = "none"
              /\ f.next > nextId.amenity
              /\ last'.err # "none"
              => /\ \A a \in nextId.amenity .. (f.next - 1) : a \in DOMAIN amenities'
                 /\ DOMAIN places' = DOMAIN places]_vars

\* C21 witness: a place-creation request was refused and an amenity it
\* named is stored, with no place stored.
C21_Witness ==
    /\ last.err \in {"validation", "integrity"}
    /\ amenities # Empty
    /\ places = Empty
    /\ deleted.amenity = {}

\* C22: create_place succeeds for every field-map that has a valid title,
\* price, latitude, longitude and max_person and an existing owner but no
\* description key, and stores a place whose description is absent.
C22_DescriptionOptional ==
    [][\A u \in DOMAIN users, id \in {nextId.place} :
          id <= MaxPlaces /\ CreatePlace(LoftUndescribed, u)
              => /\ last'.err = "none"
                 /\ id \in DOMAIN places'
                 /\ (Has(places'[id], "description") => places'[id].description = <<>>)]_vars

(***************************************************************************)
(* The part2 facade over entities that carry their timestamps, with a      *)
(* clock that advances between calls.                                      *)
(***************************************************************************)
NextStamps ==
    \/ Tick
    \/ MemCreateUser(MemUserData(EmailAna))
    \/ \E id \in UserIds, data \in {[last_name |-> Kim], [first_name |-> Kim]} :
          MemUpdateUser(id, data)
    \/ MemCreateAmenity([name |-> Wifi])
    \/ \E id \in AmenityIds, n \in {Wifi, WiFi} : MemUpdateAmenity(id, [name |-> n])
    \/ \E u \in UserIds : MemCreatePlace(MemLoft(u))
    \/ \E id \in PlaceIds, data \in {[price |-> 0], [price |-> 100]} : MemUpdatePlace(id, data)

SpecStamps == Init /\ [][NextStamps]_vars

\* C23: after every successful update_user, update_place, update_amenity or
\* update_review call, the entity's updated_at is later than it was before
\* the call, including when the supplied values equal the stored values.
C23_UpdateRefreshesTimestamp ==
    [][/\ \A id \in DOMAIN users, data \in {[last_name |-> Kim], [first_name |-> Kim]} :
            MemUpdateUser(id, data) /\ last'.err = "none"
                => users'[id].updated_at > users[id].updated_at
       /\ \A id \in DOMAIN amenities, n \in {Wifi, WiFi} :
            MemUpdateAmenity(id, [name |-> n]) /\ last'.err = "none"
                => amenities'[id].updated_at > amenities[id].updated_at
       /\ \A id \in DOMAIN places, data \in {[price |-> 0], [price |-> 100]} :
            MemUpdatePlace(id, data) /\ last'.err = "none"
                => places'[id].updated_at > places[id].updated_at
       /\ \A id \in DOMAIN reviews, r \in {4, 5} :
            MemUpdateReview(id, [rating |-> r]) /\ last'.err = "none"
                => reviews'[id].updated_at > reviews[id].updated_at]_vars

(***************************************************************************)
(* Create and update of the length-checked names through the part4 facade. *)
(***************************************************************************)
NextNames ==
    \/ CreateUser(NewUserData(EmailAna), SaltA)
    \/ \E data \in {NewUserData(EmailBob), [NewUserData(EmailBob) EXCEPT !.first_name = <<>>]} :
          CreateUser(data, SaltA)
    \/ \E id \in UserIds, data \in {[first_name |-> Kim], [last_name |-> <<>>]} :
          UpdateUser(id, data, SaltA)
    \/ \E u \in UserIds, data \in {Loft, [Loft EXCEPT !.title = <<>>]} : CreatePlace(data, u)
    \/ \E id \in PlaceIds, data \in {[title |-> Flat], [title |-> <<>>]} : UpdatePlace(id, data)

SpecNames == Init /\ [][NextNames]_vars

\* C24: after any sequence of create and update operations through the
\* facade, every stored Place has a title of 1 to 100 characters and every
\* stored User has a first_name and a last_name of 1 to 50 characters each.
C24_StoredNamesInRange ==
    /\ \A p \in DOMAIN places : Len(places[p].title) \in 1..100
    /\ \A u \in DOMAIN users :
          Len(users[u].first_name) \in 1..50 /\ Len(users[u].last_name) \in 1..50

(***************************************************************************)
(* Two requests inside create_review at the same time.                     *)
(***************************************************************************)
NextRace ==
    \/ \E e \in {EmailAna, EmailBob} : CreateUser(NewUserData(e), SaltA)
    \/ \E u \in UserIds : CreatePlace(Loft, u)
    \/ \E request \in Requests, p \in PlaceIds, u \in UserIds, rating \in {5, 6} :
          ReviewScan(request, [place_id |-> p, text |-> Great, rating |-> rating], u)
    \/ \E request \in Requests : ReviewAdd(request)

SpecRace == Init /\ [][NextRace]_vars

\* C25: when two create_review calls by the same author for the same place
\* run concurrently, with their repository reads and writes interleaved in
\* any order, at most one of them stores a review: the review repository
\* never holds two reviews for the same (author, place) pair.
C25_ConcurrentReviewsStoreOne ==
    \A u \in DOMAIN users, p \in DOMAIN places :
        Cardinality({r \in DOMAIN reviews :
            reviews[r].user_id = u /\ reviews[r].place_id = p}) <= 1

(***************************************************************************)
(* The user requests open to callers without an admin credential.          *)
(***************************************************************************)
UserPayloads ==
    {NewUserData(EmailAna), NewUserData(EmailBob) @@ [is_admin |-> TRUE],
     NewUserData(EmailBob) @@ [is_admin |-> FALSE]}

UserPutPayloads ==
    {[first_name |-> <<"K", "i", "m">>], [last_name |-> <<"K", "i", "m">>],
     [is_admin |-> TRUE], [email |-> EmailBob]}

NextAccounts ==
    \/ \E payload \in UserPayloads : PostUser(payload, SaltA)
    \/ \E current_user \in DOMAIN users, user_id \in UserIds, payload \in UserPutPayloads :
          PutUser(current_user, user_id, payload, SaltA)

SpecAccounts == Init /\ [][NextAccounts]_vars

\* C26: no sequence of user-creation and user-update requests made by
\* callers that hold no admin credential results in a stored user whose
\* is_admin flag is true.
C26_NoSelfMadeAdmin == \A u \in DOMAIN users : users[u].is_admin = FALSE

(***************************************************************************)
(* Sequences of calls on the repository interface.                         *)
(***************************************************************************)
RepositoryObjects == {[id |-> i, name |-> n] : i \in 1..MaxAmenities + 1, n \in {Wifi, Flat}}

RepositoryCalls ==
    {[op |-> "add", obj |-> o] : o \in RepositoryObjects}
        \cup {[op |-> "get", id |-> i] : i \in 1..MaxAmenities + 1}
        \cup {[op |-> "get_all"]}
        \cup {[op |-> "update", kind |-> "dict", id |-> i, data |-> [name |-> n]] :
                 i \in 1..MaxAmenities + 1, n \in {Wifi, Flat}}
        \cup {[op |-> "update", kind |-> "entity", id |-> o.id, data |-> o] :
                 o \in RepositoryObjects}
        \cup {[op |-> "delete", id |-> i] : i \in 1..MaxAmenities + 1}
        \cup {[op |-> "get_by_attribute", attr_name |-> a, attr_value |-> Wifi] :
                 a \in {"name", "nickname"}}

NextInterface == \E call \in RepositoryCalls : Call(call)

SpecInterface == Init /\ [][NextInterface]_vars

\* C27: the in-memory repository and the relational repository are
\* observationally equivalent: for every sequence of add, get, get_all,
\* update (partial field-map or full replacement entity), delete and
\* get_by_attribute calls, both return the same results and raise a failure
\* on the same calls, including update of an id that is not stored and
\* get_by_attribute on an attribute name the entity does not have.
C27_RepositoriesEquivalent ==
    /\ (repos.memory.last.err = "none") = (repos.relational.last.err = "none")
    /\ repos.memory.last.ret = repos.relational.last.ret
    /\ repos.memory.last.value = repos.relational.last.value

(***************************************************************************)
(* Updates whose field-map names the identifier (part2 facade).            *)
(***************************************************************************)
NextIdentity ==
    \/ \E e \in {EmailAna, EmailBob} : MemCreateUser(MemUserData(e))
    \/ \E id \in UserIds, data \in {[last_name |-> <<>>], [first_name |-> Title(Wifi)]}
                                      \cup {[id |-> k] : k \in UserIds} :
          MemUpdateUser(id, data)
    \/ MemCreateAmenity([name |-> Wifi])
    \/ \E id \in AmenityIds, data \in {[name |-> Flat], [id |-> 2]} : MemUpdateAmenity(id, data)

SpecIdentity == Init /\ [][NextIdentity]_vars

\* C28: an entity's id never changes once it is stored: after any sequence
\* of facade update operations with arbitrary field-maps (including maps
\* that contain an 'id' key), every id k under which an entity is stored
\* satisfies get(k).id = k.
C28_IdentifierFixed ==
    /\ \A k \in DOMAIN users : users[k].id = k
    /\ \A k \in DOMAIN amenities : amenities[k].id = k

(***************************************************************************)
(* Reviews created and deleted, and the place's review collection read     *)
(* (part3 facade, one session).                                            *)
(***************************************************************************)
NextCollections ==
    \/ \E e \in {EmailAna, EmailBob} : CreateUser(NewUserData(e), SaltA)
    \/ \E u \in UserIds : CreatePlace(Loft, u)
    \/ \E p \in PlaceIds, u \in UserIds, rating \in {4, 5} :
          OrmCreateReview([place_id |-> p, text |-> Great, rating |-> rating], u)
    \/ \E id \in ReviewIds : DeleteReview(id)
    \/ \E id \in PlaceIds : OrmGetReviewsByPlace(id)

SpecCollections == Init /\ [][NextCollections]_vars

NextEmails ==
    \/ \E e \in {EmailAna, EmailBob, EmailBad} : OrmCreateUser(NewUserData(e), SaltA)
    \/ \E id \in UserIds, data \in {[email |-> EmailAna], [email |-> EmailBob],
                                      [last_name |-> Kim]} :
          UpdateUser(id, data, SaltA)
    \/ \E id \in UserIds : DeleteUser(id)

SpecEmails == Init /\ [][NextEmails]_vars

\* C30: in the variant that records e-mails in the process-wide
\* User.existing_emails set, that set equals the set of e-mails of the users
\* currently stored in the user repository after any sequence of
\* create_user, update_user and delete_user calls; in particular, after
\* delete_user(u) a create_user with u's former e-mail succeeds.
C30_EmailSetMatchesRepository ==
    existing_emails = {users[u].email : u \in DOMAIN users}

====
